---- MODULE Spec2Model ----
(***************************************************************************)
(* Model of src/src/pages/index.tsx: the Home component, i.e. the          *)
(* "add customer" form (React state + handlers) and the customer list      *)
(* kept by useSWR('/api/customers').                                       *)
(*                                                                         *)
(* React state lives in the variables isModalOpen, isSubmitting,           *)
(* submitError and newCustomer.  The handlers of the page are closures of  *)
(* the last committed render: they read the values that render saw, kept   *)
(* in `rendered`.  Updates made by a click handler are flushed before the  *)
(* next user event is dispatched; change events may be dispatched several  *)
(* in one task (form autofill), and updates made after an await are        *)
(* rendered in a later task, so both leave `rendered` behind the state     *)
(* until Render runs.                                                      *)
(***************************************************************************)
EXTENDS Integers, Sequences, FiniteSets, TLC

VARIABLES
    isModalOpen,   \* useState(false), line 41
    isSubmitting,  \* useState(false), line 42
    submitError,   \* useState<string | null>(null), line 43
    newCustomer,   \* useState<Customer>, lines 44-48
    rendered,      \* what the committed render (and its handlers) closed over
    inBatch,       \* change events of the running task not yet re-rendered
    posts,         \* POST /api/customers requests awaiting their response
    data,          \* useSWR data, line 58
    error,         \* useSWR error, line 58
    getCur,        \* the latest GET /api/customers is still outstanding
    getStale,      \* outstanding GETs superseded by a later revalidation
    mutated,       \* the step just taken called mutate('/api/customers')
    last           \* the handler or callback that ran in the step just taken,
                   \* and for a settled POST how it settled

vars == <<isModalOpen, isSubmitting, submitError, newCustomer, rendered,
          inBatch, posts, data, error, getCur, getStale, mutated, last>>

formVars == <<isModalOpen, isSubmitting, submitError, newCustomer>>
swrVars == <<data, error, getCur, getStale>>

----------------------------------------------------------------------------
(* Bounds *)

MaxPosts == 2   \* POST requests tracked at once
MaxStale == 2   \* superseded GET requests tracked at once

----------------------------------------------------------------------------
(* Values *)

Null == "null"             \* JavaScript null
Undefined == "undefined"   \* JavaScript undefined

Fields == {"firstName", "lastName", "email"}
Values == {"", "a"}   \* what an input's e.target.value may be

EmptyCustomer == [firstName |-> "", lastName |-> "", email |-> ""]

ValidationMessage == "Please fill in all required fields"
FailedToAdd == "Failed to add customer"
UnexpectedError == "An unexpected error occurred"

ServerMessage == "Email is invalid"
FetchFailedMessage == "Failed to fetch"
JsonParseMessage == "Unexpected token < in JSON at position 0"
NullBodyMessage == "Cannot read properties of null (reading 'message')"

\* JavaScript truthiness of a string | null | undefined
Truthy(x) == x \notin {"", Null, Undefined}

\* a || b
OrElse(a, b) == IF Truthy(a) THEN a ELSE b

\* A value that can be thrown: an Error instance with a message, or not.
ErrorOf(msg) == [isError |-> TRUE, message |-> msg]
NonError == [isError |-> FALSE, message |-> Undefined]

\* How a POST /api/customers can resolve:
\*   ok            2xx
\*   json          non-2xx, body is a JSON object; message is its message field
\*   nullBody      non-2xx, body is the JSON value null
\*   unparsable    non-2xx, body is not JSON (response.json() rejects)
\*   rejected      fetch() itself rejects with `thrown`
PostOutcomes ==
    {[kind |-> "ok", message |-> Undefined, thrown |-> NonError]}
    \cup {[kind |-> "json", message |-> m, thrown |-> NonError] :
             m \in {Undefined, "", ServerMessage}}
    \cup {[kind |-> "nullBody", message |-> Undefined, thrown |-> NonError]}
    \cup {[kind |-> "unparsable", message |-> Undefined, thrown |-> NonError]}
    \cup {[kind |-> "rejected", message |-> Undefined, thrown |-> t] :
             t \in {ErrorOf(FetchFailedMessage), NonError}}

\* `last` for a step that settles no request
NoOutcome == [kind |-> "none", message |-> Undefined, thrown |-> NonError]
Ran(op) == [op |-> op, outcome |-> NoOutcome]

\* Customer lists the list endpoint may return, and error bodies it may send.
Ada == [firstName |-> "a", lastName |-> "a", email |-> "a"]
Lists == {<<>>, <<Ada>>}
NoData == [has |-> FALSE, list |-> <<>>]
DataOf(l) == [has |-> TRUE, list |-> l]
NoError == [has |-> FALSE, code |-> "", message |-> ""]
ApiErrors == {[has |-> TRUE, code |-> "internal", message |-> "boom"]}

\* An Error instance as useSWR's error: it has a message and no code.
ThrownError(msg) == [has |-> TRUE, code |-> Undefined, message |-> msg]

\* How a GET /api/customers can resolve:
\*   ok            200, body is a JSON array of Customer
\*   error         non-2xx, body is a JSON ApiError
\*   unparsable    the body is not JSON (response.json() rejects)
\*   rejected      fetch() itself rejects
GetOutcomes ==
    {[kind |-> "ok", list |-> l, body |-> NoError] : l \in Lists}
    \cup {[kind |-> "error", list |-> <<>>, body |-> b] : b \in ApiErrors}
    \cup {[kind |-> k, list |-> <<>>, body |-> NoError] :
             k \in {"unparsable", "rejected"}}

----------------------------------------------------------------------------
(* The list cache: useSWR('/api/customers', fetcher), lines 51-61 *)

\* isLoading of useSWR: a request is ongoing and no data has been loaded yet
isLoading == getCur /\ ~data.has

\* What a render reads: the four useState values and the useSWR triple.
Snapshot ==
    [isModalOpen |-> isModalOpen, isSubmitting |-> isSubmitting,
     submitError |-> submitError, newCustomer |-> newCustomer,
     data |-> data, error |-> error, isLoading |-> isLoading]

Init ==
    /\ isModalOpen = FALSE
    /\ isSubmitting = FALSE
    /\ submitError = Null
    /\ newCustomer = EmptyCustomer
    /\ data = NoData
    /\ error = NoError
    /\ getCur = TRUE          \* useSWR fetches on mount
    /\ getStale = 0
    /\ posts = <<>>
    /\ inBatch = FALSE
    /\ mutated = FALSE
    /\ last = Ran("mount")
    /\ rendered = Snapshot

\* The component re-renders with the current state; the handlers of the new
\* render close over it.
Render ==
    /\ rendered # Snapshot
    /\ rendered' = Snapshot
    /\ inBatch' = FALSE
    /\ mutated' = FALSE
    /\ last' = Ran("render")
    /\ UNCHANGED <<formVars, swrVars, posts>>

\* fetcher resolves for the latest request: body returned, lines 52-55
ListLoaded(list) ==
    /\ getCur
    /\ ~inBatch
    /\ data' = DataOf(list)
    /\ error' = NoError
    /\ getCur' = FALSE
    /\ mutated' = FALSE
    /\ last' = Ran("listLoaded")
    /\ UNCHANGED <<formVars, rendered, inBatch, posts, getStale>>

\* ListFailed that also discards the loaded list
ListFailedClearing(body) ==
    /\ getCur
    /\ ~inBatch
    /\ error' = body
    /\ data' = NoData
    /\ getCur' = FALSE
    /\ mutated' = FALSE
    /\ last' = Ran("listFailed")
    /\ UNCHANGED <<formVars, rendered, inBatch, posts, getStale>>

\* fetcher throws the body of a non-2xx response, line 54
ListFailed(body) ==
    /\ getCur
    /\ ~inBatch
    /\ error' = body
    /\ getCur' = FALSE
    /\ mutated' = FALSE
    /\ last' = Ran("listFailed")
    /\ UNCHANGED <<formVars, rendered, inBatch, posts, data, getStale>>

\* Does fetcher throw for this outcome of the request?  lines 52-54
FetcherThrows(outcome) == outcome.kind # "ok"

\* What fetcher throws: the parsed body (line 54), or the error of fetch()
\* (line 52) or of response.json() (line 53)
FetcherThrown(outcome) ==
    CASE outcome.kind = "error" -> outcome.body
      [] outcome.kind = "unparsable" -> ThrownError(JsonParseMessage)
      [] outcome.kind = "rejected" -> ThrownError(FetchFailedMessage)

\* fetcher, lines 51-56, settles for the latest request
ListSettled(outcome) ==
    IF FetcherThrows(outcome)
    THEN ListFailed(FetcherThrown(outcome))
    ELSE ListLoaded(outcome.list)

\* the response to a superseded request is dropped
StaleListResponse ==
    /\ getStale > 0
    /\ ~inBatch
    /\ getStale' = getStale - 1
    /\ mutated' = FALSE
    /\ last' = Ran("staleListResponse")
    /\ UNCHANGED <<formVars, rendered, inBatch, posts, data, error, getCur>>

\* mutate('/api/customers'), line 95: revalidate, superseding a pending fetch
Mutate ==
    /\ getCur' = TRUE
    /\ getStale' = IF getCur THEN getStale + 1 ELSE getStale
    /\ UNCHANGED <<data, error>>

----------------------------------------------------------------------------
(* What a render shows of the list, lines 162-201 *)

NoBanner == Null

\* ErrorBanner showing the code of the error
ErrorBannerCode(r) == IF r.error.has THEN r.error.code ELSE NoBanner

\* lines 163-167: {error && <Alert>{error.message}</Alert>}
ErrorBanner(r) == IF r.error.has THEN r.error.message ELSE NoBanner

\* lines 178-202: the rows of the table body
TableBody(r) ==
    IF r.isLoading
    THEN [kind |-> "loading", rows |-> 0]
    ELSE IF r.data.has /\ Len(r.data.list) > 0
         THEN [kind |-> "rows", rows |-> Len(r.data.list)]
         ELSE [kind |-> "placeholder", rows |-> 0]

----------------------------------------------------------------------------
(* The form *)

\* onClick of "Add Customer", lines 145-149
OpenModal ==
    /\ ~inBatch
    /\ ~rendered.isModalOpen
    /\ ~rendered.isLoading          \* disabled={isLoading}
    /\ isModalOpen' = TRUE
    /\ mutated' = FALSE
    /\ last' = Ran("openModal")
    /\ UNCHANGED <<isSubmitting, submitError, newCustomer, swrVars, posts,
                   inBatch>>
    /\ rendered' = Snapshot'

\* handleInputChange, lines 64-67: onChange of one of the three TextFields.
\* newCustomer on the right-hand side is the render's, not the latest state.
handleInputChange(name, value) ==
    /\ rendered.isModalOpen
    /\ newCustomer' = [rendered.newCustomer EXCEPT ![name] = value]
    /\ inBatch' = TRUE
    /\ mutated' = FALSE
    /\ last' = Ran("handleInputChange")
    /\ UNCHANGED <<isModalOpen, isSubmitting, submitError, rendered, swrVars,
                   posts>>

\* Invalid with the email check left out
InvalidNamesOnly(customer) ==
    \/ ~Truthy(customer.firstName)
    \/ ~Truthy(customer.lastName)

\* line 74: !firstName || !lastName || !email
Invalid(customer) ==
    \/ ~Truthy(customer.firstName)
    \/ ~Truthy(customer.lastName)
    \/ ~Truthy(customer.email)

\* CreateDisabled without the disabled prop
CreateNeverDisabled == FALSE

\* disabled={isSubmitting} of the Create button, line 273
CreateDisabled == rendered.isSubmitting

\* handleSubmit without setSubmitError(null) of line 71
handleSubmitKeepsError ==
    /\ ~inBatch
    /\ rendered.isModalOpen
    /\ ~CreateDisabled
    /\ IF Invalid(rendered.newCustomer)
         THEN /\ submitError' = ValidationMessage
              /\ UNCHANGED <<isSubmitting, posts>>
         ELSE /\ Len(posts) < MaxPosts
              /\ getStale < MaxStale
              /\ UNCHANGED submitError
              /\ isSubmitting' = TRUE
              /\ posts' = Append(posts, [body |-> rendered.newCustomer])
    /\ mutated' = FALSE
    /\ last' = Ran("handleSubmit")
    /\ UNCHANGED <<isModalOpen, newCustomer, swrVars, inBatch>>
    /\ rendered' = Snapshot'

\* handleSubmit with setIsSubmitting(true) ahead of the validation
handleSubmitFlagFirst ==
    /\ ~inBatch
    /\ rendered.isModalOpen
    /\ ~CreateDisabled
    /\ isSubmitting' = TRUE
    /\ IF Invalid(rendered.newCustomer)
         THEN /\ submitError' = ValidationMessage
              /\ UNCHANGED posts
         ELSE /\ Len(posts) < MaxPosts
              /\ getStale < MaxStale
              /\ submitError' = Null
              /\ posts' = Append(posts, [body |-> rendered.newCustomer])
    /\ mutated' = FALSE
    /\ last' = Ran("handleSubmit")
    /\ UNCHANGED <<isModalOpen, newCustomer, swrVars, inBatch>>
    /\ rendered' = Snapshot'

\* handleSubmit up to its await, lines 70-87: onClick of "Create".
\* The request body is JSON.stringify(newCustomer) of the render's draft.
handleSubmit ==
    /\ ~inBatch
    /\ rendered.isModalOpen
    /\ ~CreateDisabled
    /\ IF Invalid(rendered.newCustomer)
         THEN /\ submitError' = ValidationMessage
              /\ UNCHANGED <<isSubmitting, posts>>
         ELSE /\ Len(posts) < MaxPosts
              /\ getStale < MaxStale
              /\ submitError' = Null
              /\ isSubmitting' = TRUE
              /\ posts' = Append(posts, [body |-> rendered.newCustomer])
    /\ mutated' = FALSE
    /\ last' = Ran("handleSubmit")
    /\ UNCHANGED <<isModalOpen, newCustomer, swrVars, inBatch>>
    /\ rendered' = Snapshot'

\* Does the try block throw for this outcome of the request?  lines 81-92
Throws(outcome) == outcome.kind # "ok"

\* The value the try block throws, lines 81-92
ThrownValue(outcome) ==
    CASE outcome.kind = "rejected" -> outcome.thrown
      [] outcome.kind = "unparsable" -> ErrorOf(JsonParseMessage)
      [] outcome.kind = "nullBody" -> ErrorOf(NullBodyMessage)
      [] outcome.kind = "json" -> ErrorOf(OrElse(outcome.message, FailedToAdd))

\* lines 100-104
CatchMessage(err) == IF err.isError THEN err.message ELSE UnexpectedError

\* TrySuccess without setNewCustomer(empty)
TrySuccessKeepsDraft ==
    /\ Mutate
    /\ mutated' = TRUE
    /\ isModalOpen' = FALSE
    /\ UNCHANGED <<submitError, newCustomer>>

\* the rest of the try block after a 2xx response, lines 94-98
TrySuccess ==
    /\ newCustomer' = EmptyCustomer
    /\ Mutate
    /\ mutated' = TRUE
    /\ isModalOpen' = FALSE
    /\ UNCHANGED submitError

\* CatchBlock that also revalidates the list
CatchBlockRevalidating(err) ==
    /\ submitError' = CatchMessage(err)
    /\ Mutate
    /\ mutated' = TRUE
    /\ UNCHANGED <<newCustomer, isModalOpen>>

\* CatchBlock that also clears the form
CatchBlockResetting(err) ==
    /\ submitError' = CatchMessage(err)
    /\ newCustomer' = EmptyCustomer
    /\ mutated' = FALSE
    /\ UNCHANGED <<isModalOpen, swrVars>>

\* catch (err), lines 99-104
CatchBlock(err) ==
    /\ submitError' = CatchMessage(err)
    /\ mutated' = FALSE
    /\ UNCHANGED <<newCustomer, isModalOpen, swrVars>>

\* FinallyBlock without setIsSubmitting(false)
FinallySkipped == UNCHANGED isSubmitting

\* finally, lines 105-107
FinallyBlock == isSubmitting' = FALSE

RemoveAt(s, i) == SubSeq(s, 1, i - 1) \o SubSeq(s, i + 1, Len(s))

\* handleSubmit from its await on, lines 81-107: the i-th outstanding request
\* settles with `outcome`.
PostSettled(i, outcome) ==
    /\ ~inBatch
    /\ i \in 1..Len(posts)
    /\ posts' = RemoveAt(posts, i)
    /\ IF Throws(outcome) THEN CatchBlock(ThrownValue(outcome)) ELSE TrySuccess
    /\ FinallyBlock
    /\ last' = [op |-> "postSettled", outcome |-> outcome]
    /\ UNCHANGED <<rendered, inBatch>>

\* CanClose without the isSubmitting test
CanCloseAlways == TRUE

\* CanClose with the test inverted
CanCloseInverted == rendered.isSubmitting

\* line 117: if (!isSubmitting), with the render's isSubmitting
CanClose == ~rendered.isSubmitting

\* handleClose, lines 116-121: Cancel, or onClose of the Dialog
handleClose ==
    /\ ~inBatch
    /\ rendered.isModalOpen
    /\ IF CanClose
         THEN /\ isModalOpen' = FALSE
              /\ submitError' = Null
         ELSE UNCHANGED <<isModalOpen, submitError>>
    /\ mutated' = FALSE
    /\ last' = Ran("handleClose")
    /\ UNCHANGED <<isSubmitting, newCustomer, swrVars, posts, inBatch>>
    /\ rendered' = IF CanClose THEN Snapshot' ELSE rendered

----------------------------------------------------------------------------

Next ==
    \/ Render
    \/ \E outcome \in GetOutcomes : ListSettled(outcome)
    \/ StaleListResponse
    \/ OpenModal
    \/ \E name \in Fields, value \in Values : handleInputChange(name, value)
    \/ handleSubmit
    \/ \E i \in 1..MaxPosts, outcome \in PostOutcomes : PostSettled(i, outcome)
    \/ handleClose

Spec == Init /\ [][Next]_vars

----------------------------------------------------------------------------
(* Properties *)

SomeFieldEmpty(customer) == \E f \in Fields : customer[f] = ""
AllA == [firstName |-> "a", lastName |-> "a", email |-> "a"]
Settles == Len(posts') < Len(posts)
SettlesOk == Settles /\ last'.op = "postSettled" /\ last'.outcome.kind = "ok"
SettlesFailed == Settles /\ last'.op = "postSettled" /\ last'.outcome.kind # "ok"

\* C1 (validation gate): a handleSubmit on a draft with an empty firstName,
\* lastName or email issues no POST and sets submitError to
\* 'Please fill in all required fields'.
C1_ValidationGate ==
    [][(handleSubmit /\ SomeFieldEmpty(newCustomer))
          => (posts' = posts /\ submitError' = ValidationMessage
              /\ ~isSubmitting')]_vars

C1_Witness ==
    /\ last.op = "handleSubmit"
    /\ newCustomer.firstName = "a"
    /\ newCustomer.email = ""
    /\ submitError = ValidationMessage
    /\ posts = <<>>

\* C2 (ordering of invalidation): mutate('/api/customers') is only called
\* in the step in which a POST settles with a 2xx response; never by the step
\* that issues the request, never when the request fails or validation
\* rejects the draft.
C2_InvalidationAfterSuccess ==
    [][mutated' => SettlesOk]_vars

C2_Witness ==
    /\ mutated
    /\ last.op = "postSettled"
    /\ last.outcome.kind = "ok"
    /\ getCur

\* C3 (release of the in-flight flag): whenever a POST settles, whatever the
\* outcome, isSubmitting is false afterwards.
C3_FlagReleased ==
    [][Settles => ~isSubmitting']_vars

C3_Witness ==
    /\ last.op = "postSettled"
    /\ last.outcome.kind = "rejected"
    /\ ~isSubmitting
    /\ posts = <<>>

\* C4 (success resets): when the POST of a valid draft settles with 2xx, the
\* dialog is closed, the draft is empty, the form is idle (not submitting, no
\* error) and the list has been revalidated (a new GET is outstanding).
C4_SuccessResets ==
    [][SettlesOk
          => (/\ ~isModalOpen'
              /\ newCustomer' = EmptyCustomer
              /\ ~isSubmitting'
              /\ submitError' = Null
              /\ mutated'
              /\ getCur')]_vars

C4_Witness ==
    /\ last.op = "postSettled"
    /\ last.outcome.kind = "ok"
    /\ rendered.newCustomer = AllA
    /\ newCustomer = EmptyCustomer
    /\ ~isModalOpen
    /\ getCur

\* C5 (failure preserves): neither the step of handleSubmit that issues the
\* request nor the step in which the request fails changes the draft; after
\* the failure the dialog is open and the form is Failed: not submitting, with
\* a message that is not null.
C5_FailurePreserves ==
    [][/\ handleSubmit => newCustomer' = newCustomer
       /\ SettlesFailed
             => (/\ isModalOpen'
                 /\ newCustomer' = newCustomer
                 /\ ~isSubmitting'
                 /\ submitError' # Null)]_vars

C5_Witness ==
    /\ last.op = "postSettled"
    /\ last.outcome.kind = "json"
    /\ submitError = ServerMessage
    /\ isModalOpen
    /\ newCustomer = AllA

\* C6 (failure message selection): when the POST fails, submitError is the
\* message field of the response body when that field is present and not
\* empty, and otherwise one of the client's fallback messages; for non-2xx
\* responses and rejected fetches alike.
C6_FailureMessage ==
    [][SettlesFailed
          => LET o == last'.outcome
             IN  IF o.kind = "json" /\ o.message \notin {Undefined, ""}
                 THEN submitError' = o.message
                 ELSE submitError' \in {FailedToAdd, UnexpectedError}]_vars

\* C7 (close is blocked while submitting): a handleClose while isSubmitting
\* is true leaves the dialog open and the draft, the error message and the
\* flag unchanged.
C7_CloseBlocked ==
    [][(handleClose /\ isSubmitting)
          => (/\ isModalOpen'
              /\ UNCHANGED <<isModalOpen, newCustomer, submitError,
                             isSubmitting>>)]_vars

C7_Witness ==
    /\ last.op = "handleClose"
    /\ isSubmitting
    /\ isModalOpen
    /\ Len(posts) = 1

\* C8 (close resets the form): a handleClose that closes the dialog leaves
\* the draft empty and the error message cleared.
C8_CloseResets ==
    [][(handleClose /\ isModalOpen /\ ~isModalOpen')
          => (newCustomer' = EmptyCustomer /\ submitError' = Null)]_vars

\* C9 (setField frame): handleInputChange for a field sets that field of the
\* draft to the value and leaves the other two fields, the dialog flag, the
\* submitting flag, the error message and the outstanding requests unchanged,
\* also when it follows another change that has not been rendered yet.
C9_SetFieldFrame ==
    [][\A name \in Fields, value \in Values :
          handleInputChange(name, value)
             => (/\ newCustomer' = [newCustomer EXCEPT ![name] = value]
                 /\ UNCHANGED <<isModalOpen, isSubmitting, submitError,
                                posts, swrVars>>)]_vars

\* C10 (at most one create in flight): at most one POST is outstanding, and
\* while one is, isSubmitting is true and the rendered Create button is
\* disabled.
C10_OneCreateInFlight ==
    /\ Len(posts) <= 1
    /\ posts # <<>> => (isSubmitting /\ rendered.isSubmitting)

C10_Witness ==
    /\ Len(posts) = 1
    /\ last.op = "handleSubmit"
    /\ rendered.isSubmitting

\* GET /api/customers requests that have not been answered yet
ListFetchesInFlight == (IF getCur THEN 1 ELSE 0) + getStale

\* C11 (at most one list fetch in flight): at most one GET /api/customers is
\* outstanding; a mutate('/api/customers') while a list fetch is pending
\* starts no second request.
C11_OneListFetchInFlight ==
    ListFetchesInFlight <= 1

C13_TableRendering ==
    LET body == TableBody(rendered)
        loaded == rendered.data.has /\ Len(rendered.data.list) > 0
    IN  /\ body.kind = "loading" <=> rendered.isLoading
        /\ (~rendered.isLoading /\ ~rendered.error.has /\ loaded)
              => (body.kind = "rows" /\ body.rows = Len(rendered.data.list))
        /\ (~rendered.isLoading /\ ~rendered.error.has /\ ~loaded)
              => (body.kind = "placeholder" /\ ErrorBanner(rendered) = NoBanner)
        /\ (~rendered.isLoading /\ rendered.error.has)
              => body.kind = "placeholder"

\* C15 (FetchState exclusivity and transitions): exactly one of Loading
\* (isLoading), Error (error set) and Ready (data set) holds, and a mutate
\* takes Ready or Error to Loading.
C15_FetchStateExclusive ==
    /\ [](Cardinality({v \in {"Loading", "Error", "Ready"} :
                         \/ v = "Loading" /\ isLoading
                         \/ v = "Error" /\ error.has
                         \/ v = "Ready" /\ data.has}) = 1)
    /\ [][mutated' => (isLoading' /\ ~error'.has /\ ~data'.has)]_vars

\* C16 (collection ownership): data only changes in the step in which the
\* awaited list fetch succeeds, and then to the list fetched; the form's
\* handlers and a failed list fetch leave it as it is.
C16_CollectionOwnership ==
    [][/\ data' # data
          => (/\ last'.op = "listLoaded"
              /\ \E list \in Lists : data' = DataOf(list))
       /\ last'.op \in {"listFailed", "openModal", "handleClose",
                        "handleInputChange", "handleSubmit", "postSettled"}
          => data' = data]_vars

C16_Witness ==
    /\ last.op = "listFailed"
    /\ data = DataOf(<<Ada>>)
    /\ error.has

\* C14 (malformed create error body): when the POST gets a non-2xx response
\* whose body is not JSON, submitError is one of the client's fallback
\* messages, not the text of the parsing exception.
C14_MalformedBodyFallback ==
    [][(SettlesFailed /\ last'.outcome.kind = "unparsable")
          => (/\ submitError' \in {FailedToAdd, UnexpectedError}
              /\ ~isSubmitting')]_vars

\* C17 (Submitting and Failed are exclusive): while isSubmitting is true
\* submitError is null, in the state and in what is rendered.
C17_NoErrorWhileSubmitting ==
    /\ isSubmitting => submitError = Null
    /\ rendered.isSubmitting => rendered.submitError = Null

C17_Witness ==
    /\ isSubmitting
    /\ rendered.isSubmitting
    /\ submitError = Null
    /\ last.op = "handleInputChange"

\* C18 (a request in flight implies an open dialog): while isSubmitting is
\* true or a POST is outstanding the dialog is open, and the only step that
\* closes the dialog while isSubmitting is the one in which the POST settles
\* with 2xx, which also clears the flag.
C18_SubmittingImpliesOpen ==
    /\ []((isSubmitting \/ posts # <<>>) => isModalOpen)
    /\ [][(isSubmitting /\ isModalOpen /\ ~isModalOpen')
            => (SettlesOk /\ ~isSubmitting')]_vars

C18_Witness ==
    /\ isSubmitting
    /\ posts # <<>>
    /\ isModalOpen
    /\ last.op = "listLoaded"

\* C19 (validation rejection frame): a handleSubmit rejected by validation
\* changes submitError only: the draft, the open dialog, the false
\* isSubmitting, the list cache and the outstanding requests stay as they
\* are, and mutate is not called.
C19_ValidationFrame ==
    [][(handleSubmit /\ SomeFieldEmpty(newCustomer))
          => (/\ UNCHANGED <<newCustomer, isModalOpen, isSubmitting, swrVars,
                             posts>>
              /\ isModalOpen'
              /\ ~isSubmitting'
              /\ ~mutated')]_vars

C19_Witness ==
    /\ last.op = "handleSubmit"
    /\ submitError = ValidationMessage
    /\ newCustomer = EmptyCustomer
    /\ isModalOpen
    /\ ~isSubmitting
    /\ ListFetchesInFlight = 0

====
